---- MODULE Spec2Model ----
(***************************************************************************)
(* A model of src/src/dionysus/training.py: the TrainingConfig dataclass   *)
(* (its __post_init__), train and run_epoch.  The collaborators the file   *)
(* calls (torch, logging, the file system, sklearn, dionysus.utils) are    *)
(* modelled by the effect of each call the file makes, and every call is   *)
(* recorded, in program order, in the trace `calls`.                       *)
(***************************************************************************)
EXTENDS Integers, Sequences, FiniteSets, TLC

(* ------------------------------ bounds -------------------------------- *)
\* largest `epochs` a configuration is built with
MaxEpochs == 3
\* largest number of batches a data loader yields
MaxBatches == 2
\* how many TrainingConfig constructions one process performs (SpecConfig)
MaxConstructions == 3
\* the wall clock (seconds, as strftime prints them) runs from 0 to MaxClock
MaxClock == 1
\* the model outputs of SpecLabels: at most MaxRows samples, at most MaxCols
\* scores per sample, every score in 0..MaxScore
MaxRows == 2
MaxCols == 2
MaxScore == 1

VARIABLES
    pc,           \* the statement the process is at
    args,         \* the arguments of the latest TrainingConfig(...) call
    config,       \* the TrainingConfig object (NoConfig before construction)
    model,        \* config.model: [training, params, grad]
    grad_enabled, \* torch's global gradient mode (torch.no_grad clears it)
    fs,           \* the directories and files that exist
    root_handler, \* the file of the root logger's handler ("" when it has none)
    clock,        \* datetime.datetime.now(), in seconds
    constructions,\* the number of TrainingConfig(...) calls so far
    calls,        \* the collaborator calls of the current top-level call
                  \* (a construction, a train, a run_epoch), in program order
    checkpoints,  \* the arguments of its save_checkpoint calls
    results,      \* train's `results` dict, shared with run_epoch
    tl,           \* train's other locals
    rl,           \* run_epoch's locals
    ret,          \* the value the last run_epoch call returned
    err,          \* the exception that ended the last call ("" when none)
    runs,         \* the number of train calls started on this config
    finished      \* the results mapping of every train call that returned

vars == <<pc, args, config, model, grad_enabled, fs, root_handler, clock,
          constructions, calls, checkpoints, results, tl, rl, ret, err,
          runs, finished>>

(* ------------------------- values and options ------------------------- *)
\* Python's None for an optional data loader / an optional list of epochs
NoLoader == [present |-> FALSE, batches |-> 0]
Loader(n) == [present |-> TRUE, batches |-> n]
NoEpochs == [present |-> FALSE, epochs |-> {}]
Epochs(S) == [present |-> TRUE, epochs |-> S]

\* a device selector is a str or a torch.device
Str(s) == [type |-> "str", name |-> s]
Device(s) == [type |-> "torch.device", name |-> s]

\* an optimizer object bound to the model's parameters
Optimizer(kind) == [type |-> "optimizer", kind |-> kind, bound |-> "model.parameters()"]

\* constants.LOG_FILE
LOG_FILE == "LOG_FILE"

NoConfig == [constructed |-> FALSE]
NoArgs == [given |-> FALSE]

\* os.path.join / Path.joinpath
Join(a, b) == a \o "/" \o b

\* current_time.strftime("%Y%m%d_%H%M%S"): one string per second
Strftime(t) == ToString(t)

\* A tensor, an array or the nested list made of one: its number of
\* dimensions and its items, numbers for one dimension and rows for two.
Array(ndim, items) == [ndim |-> ndim, items |-> items]
\* y_pred = []
EmptyList == Array(1, <<>>)
\* y_pred.extend(y_hat.tolist())
Extend(list, y_hat) ==
    IF list.items = <<>> THEN y_hat
    ELSE Array(list.ndim, list.items \o y_hat.items)
\* np.asarray(y_pred).shape
Shape(a) ==
    IF a.ndim = 2 THEN <<Len(a.items), Len(a.items[1])>> ELSE <<Len(a.items)>>
\* sklearn's column_or_1d: a single column is read as its values
Ravel(a) ==
    IF a.ndim = 2 THEN [k \in 1..Len(a.items) |-> a.items[k][1]] ELSE a.items

(* --------------------- TrainingConfig.__post_init__ -------------------- *)
\* lines 55-58: the selector is replaced by an optimizer object for "SGD" and
\* "AdamW"; there is no else branch, any other selector stays the str it was
ResolveOptimizer(selector) ==
    IF selector = "SGD" THEN Optimizer("SGD")
    ELSE IF selector = "AdamW" THEN Optimizer("AdamW")
    ELSE Str(selector)

\* lines 64-66
SavePathFinal(save_path, model_name, now) ==
    Join(save_path, Strftime(now) \o "_" \o model_name)

\* lines 60-70: the log file's path
LogFile(a, now) ==
    IF a.save_model
    THEN Join(SavePathFinal(a.save_path, a.model_name, now), LOG_FILE)
    ELSE LOG_FILE

\* force passed as True whatever colab is
BasicConfig_AlwaysForce(current, logfile, force) == logfile

\* logging.basicConfig(handlers=[h], force=f): does nothing when the root
\* logger has handlers and f is false; else h replaces the root's handlers
BasicConfig(current, logfile, force) ==
    IF current # "" /\ ~force THEN current ELSE logfile

\* str == torch.device is False; torch.device == torch.device compares names
DeviceEq(d, e) == d.type = e.type /\ d.name = e.name

\* bool(torch.device("cpu")): an object without __bool__/__len__ is truthy
Truthy(d) == TRUE

\* lines 79-86
ResolveDevice(device, cuda_available) ==
    IF DeviceEq(device, Str("gpu")) \/ DeviceEq(device, Device("cuda:0"))
    THEN [device |-> Device(IF cuda_available THEN "cuda:0" ELSE "cpu"),
          branch |-> "gpu"]
    ELSE IF DeviceEq(device, Str("cpu")) \/ Truthy(Device("cpu"))
    THEN [device |-> Device("cpu"), branch |-> "cpu"]
    ELSE [device |-> device, branch |-> "else"]

\* lines 81, 84, 86
DeviceLog(r, requested) ==
    IF r.branch = "else"
    THEN "logging.info: device " \o requested.name \o " is not available, using cpu instead"
    ELSE "logging.info: using device " \o r.device.name

\* the fields of a constructed TrainingConfig
PostInit(a, now, cuda_available) ==
    [constructed |-> TRUE,
     optimizer |-> ResolveOptimizer(a.optimizer),
     training_loader |-> a.training_loader,
     validation_loader |-> a.validation_loader,
     epochs |-> a.epochs,
     device |-> ResolveDevice(a.device, cuda_available).device,
     save_model |-> a.save_model,
     colab |-> a.colab,
     zip_result |-> a.zip_result,
     save_path |-> a.save_path,
     model_name |-> a.model_name,
     classification_metrics |-> a.classification_metrics,
     progress_bar |-> a.progress_bar,
     checkpoint_epochs |-> a.checkpoint_epochs,
     save_path_final |-> IF a.save_model
                         THEN SavePathFinal(a.save_path, a.model_name, now)
                         ELSE ""]

\* a freshly built model: in training mode, no gradient accumulated
NewModel == [training |-> TRUE, params |-> 0, grad |-> 0]

NoTrainLocals ==
    [epoch |-> 0, time_training |-> 0, epoch_time |-> 0,
     validation_result |-> [state |-> "unbound", y_true |-> <<>>, y_pred |-> EmptyList],
     x_sample |-> <<>>]
NoRunLocals ==
    [caller |-> "", prefix |-> "", epoch |-> 0, data_loader |-> NoLoader,
     batch |-> 0, running_loss |-> <<>>, y_true |-> <<>>,
     y_pred |-> EmptyList,
     x |-> <<>>, y |-> <<>>, y_hat |-> EmptyList, loss |-> 0]
NoReturn == [returned |-> FALSE]

\* mkdir called with exist_ok=True
MkdirFails_ExistOk(path, existing) == FALSE

\* line 67: Path.mkdir(parents=True, exist_ok=False) raises FileExistsError
\* when the path exists
MkdirFails(path, existing) == path \in existing

\* TrainingConfig(**a) at time `clock`: the whole __post_init__
Construct(a, cuda_available) ==
    /\ pc \in {"new", "idle", "construct_failed"}
    /\ constructions' = constructions + 1
    /\ args' = a
    /\ LET final == SavePathFinal(a.save_path, a.model_name, clock)
           logfile == LogFile(a, clock)
           dev == ResolveDevice(a.device, cuda_available)
       IN  IF a.save_model /\ MkdirFails(final, fs)
           THEN \* the exception leaves __post_init__ before line 68
                /\ err' = "FileExistsError"
                /\ pc' = "construct_failed"
                /\ calls' = <<"mkdir">>
                /\ UNCHANGED <<config, model, fs, root_handler>>
           ELSE /\ err' = ""
                /\ pc' = "idle"
                /\ config' = PostInit(a, clock, cuda_available)
                /\ model' = NewModel
                \* line 67 creates the directory and its parents; line 75
                \* opens the log file with mode "w", which creates it
                /\ fs' = fs \cup (IF a.save_model THEN {a.save_path, final} ELSE {})
                            \cup {logfile}
                /\ root_handler' = BasicConfig(root_handler, logfile, a.colab)
                /\ calls' =
                       (IF a.save_model THEN <<"mkdir">> ELSE <<>>) \o
                       <<"logging.basicConfig", DeviceLog(dev, a.device)>>
    /\ UNCHANGED <<grad_enabled, clock, checkpoints, results, tl, rl, ret,
                   runs, finished>>

\* a second passes
Tick ==
    /\ pc \in {"new", "idle", "construct_failed"}
    /\ clock < MaxClock
    /\ clock' = clock + 1
    /\ UNCHANGED <<pc, args, config, model, grad_enabled, fs, root_handler,
                   constructions, calls, checkpoints, results, tl, rl, ret,
                   err, runs, finished>>

(* ------------------------- the collaborators -------------------------- *)
\* The data loaders are deterministic: batch i of a loader holds BatchSize(i)
\* samples, each an input row and a label in {0, 1}.
BatchSize(i) == 1 + (i % 2)
Offset(prefix) == IF prefix = "validation" THEN 100 ELSE 0
BatchX(prefix, i) == [k \in 1..BatchSize(i) |-> Offset(prefix) + 10 * i + k]
BatchY(prefix, i) == [k \in 1..BatchSize(i) |-> k % 2]

\* config.model(x): one row of two scores per input row
ModelForward(params, x) ==
    Array(2, [k \in 1..Len(x) |-> <<(x[k] + params) % 3, 1>>])

\* np.argmax of one row: the first index (0-based) of its largest entry
ArgMax(row) ==
    (CHOOSE i \in 1..Len(row) :
        /\ \A j \in 1..Len(row) : row[j] <= row[i]
        /\ \A j \in 1..(i - 1) : row[j] < row[i]) - 1

\* config.loss_func(y_hat, y): the number of rows whose best score misses
LossFunc(y_hat, y) ==
    Cardinality({k \in 1..Len(y) : ArgMax(y_hat.items[k]) # y[k]})

\* lines 211-215: np.asarray(y_pred), and arg-max over the last axis when the
\* array is two-dimensional with more than one column
IsTwoDimensional(a) == Len(Shape(a)) = 2

\* the arg-max taken of every two-dimensional array, one column included
HardLabels_AnyColumns(y_pred) ==
    IF IsTwoDimensional(y_pred) /\ Shape(y_pred)[2] >= 1
    THEN Array(1, [k \in 1..Len(y_pred.items) |-> ArgMax(y_pred.items[k])])
    ELSE y_pred

HardLabels(y_pred) ==
    IF IsTwoDimensional(y_pred) /\ Shape(y_pred)[2] > 1
    THEN Array(1, [k \in 1..Len(y_pred.items) |-> ArgMax(y_pred.items[k])])
    ELSE y_pred

RECURSIVE Sum(_)
Sum(s) == IF s = <<>> THEN 0 ELSE Head(s) + Sum(Tail(s))

\* np.mean(running_loss), in thousandths
Mean(s) == (1000 * Sum(s)) \div Len(s)

\* x / y with zero_division=0, in thousandths
Ratio(x, y) == IF y = 0 THEN 0 ELSE (1000 * x) \div y

\* sklearn's classification_report(y_true, y_pred, output_dict=True,
\* zero_division=0): the accuracy and the macro averages
ClassificationReport(y_true, y_pred) ==
    LET idx == 1..Len(y_true)
        pred == Ravel(y_pred)
        labels == {y_true[k] : k \in idx} \cup {pred[k] : k \in idx}
        tp(c) == Cardinality({k \in idx : y_true[k] = c /\ pred[k] = c})
        support(c) == Cardinality({k \in idx : y_true[k] = c})
        predicted(c) == Cardinality({k \in idx : pred[k] = c})
        recall(c) == Ratio(tp(c), support(c))
        precision(c) == Ratio(tp(c), predicted(c))
        f1(c) == IF recall(c) + precision(c) = 0 THEN 0
                 ELSE (2 * recall(c) * precision(c)) \div (recall(c) + precision(c))
        order == CHOOSE s \in [1..Cardinality(labels) -> labels] :
                     {s[k] : k \in DOMAIN s} = labels
        macro(f(_)) == Sum([k \in DOMAIN order |-> f(order[k])]) \div Len(order)
    IN  [accuracy |-> Ratio(Cardinality({k \in idx : y_true[k] = pred[k]}),
                            Len(y_true)),
         recall |-> macro(recall),
         precision |-> macro(precision),
         f1score |-> macro(f1)]

\* optimizer.step() of an optimizer object: the parameters move by the
\* accumulated gradient
OptimizerStep(params, grad) == params + grad

(* ------------------------------ run_epoch ----------------------------- *)
METRICS == <<"accuracy", "macro_recall", "macro_precision", "macro_f1score">>

\* lines 177-184: the call run_epoch(config, results, epoch, prefix)
EnterRunEpoch(caller, epoch, prefix) ==
    [caller |-> caller, prefix |-> prefix, epoch |-> epoch,
     data_loader |-> IF prefix = "training" THEN config.training_loader
                     ELSE config.validation_loader,
     batch |-> 0, running_loss |-> <<>>, y_true |-> <<>>,
     y_pred |-> EmptyList,
     x |-> <<>>, y |-> <<>>, y_hat |-> EmptyList, loss |-> 0]

\* an exception leaves the frames: a `with torch.no_grad()` block it crosses
\* restores the gradient mode
Unwind(exception) ==
    /\ pc' = "failed"
    /\ err' = exception
    /\ grad_enabled' = TRUE

\* the mode check dropped
TrainsOnBatch_Always(m) == TRUE

\* line 194: if config.model.training
TrainsOnBatch(m) == m.training

\* lines 185-192: the loop head, the move to the device, the forward pass and
\* the loss; iterating None (no loader) raises
Forward ==
    /\ pc = "loop"
    /\ IF ~rl.data_loader.present
       THEN /\ Unwind("TypeError")
            /\ UNCHANGED <<rl, calls>>
       ELSE IF rl.batch < rl.data_loader.batches
       THEN LET i == rl.batch + 1
                x == BatchX(rl.prefix, i)
                y == BatchY(rl.prefix, i)
                y_hat == ModelForward(model.params, x)
            IN  /\ rl' = [rl EXCEPT !.batch = i, !.x = x, !.y = y,
                                    !.y_hat = y_hat,
                                    !.loss = LossFunc(y_hat, y)]
                /\ calls' = Append(calls, "model.forward")
                /\ pc' = IF TrainsOnBatch(model) THEN "backward" ELSE "accumulate"
                /\ UNCHANGED <<err, grad_enabled>>
       ELSE /\ pc' = "post_loop"
            /\ UNCHANGED <<rl, calls, err, grad_enabled>>
    /\ UNCHANGED <<args, config, model, fs, root_handler, clock, constructions,
                   checkpoints, results, tl, ret, runs, finished>>

\* line 195: loss.backward() adds the batch's gradient to the buffer; under
\* torch.no_grad the loss has no graph and backward raises
Backward ==
    /\ pc = "backward"
    /\ calls' = Append(calls, "loss.backward")
    /\ IF grad_enabled
       THEN /\ model' = [model EXCEPT !.grad = @ + rl.loss]
            /\ pc' = "step"
            /\ UNCHANGED <<err, grad_enabled>>
       ELSE /\ Unwind("RuntimeError")
            /\ UNCHANGED model
    /\ UNCHANGED <<args, config, fs, root_handler, clock, constructions,
                   checkpoints, results, tl, rl, ret, runs, finished>>

\* line 196: config.optimizer.step(); a str has no step attribute
Step ==
    /\ pc = "step"
    /\ IF config.optimizer.type = "optimizer"
       THEN /\ model' = [model EXCEPT !.params = OptimizerStep(@, model.grad)]
            /\ calls' = Append(calls, "optimizer.step")
            /\ pc' = "zero_grad"
            /\ UNCHANGED <<err, grad_enabled>>
       ELSE /\ Unwind("AttributeError")
            /\ UNCHANGED <<model, calls>>
    /\ UNCHANGED <<args, config, fs, root_handler, clock, constructions,
                   checkpoints, results, tl, rl, ret, runs, finished>>

\* the gradient reset dropped
ZeroGrad_Skipped ==
    /\ pc = "zero_grad"
    /\ pc' = "accumulate"
    /\ UNCHANGED <<args, config, model, grad_enabled, fs, root_handler, clock,
                   constructions, calls, checkpoints, results, tl, rl, ret,
                   err, runs, finished>>

\* line 197: config.optimizer.zero_grad()
ZeroGrad ==
    /\ pc = "zero_grad"
    /\ model' = [model EXCEPT !.grad = 0]
    /\ calls' = Append(calls, "optimizer.zero_grad")
    /\ pc' = "accumulate"
    /\ UNCHANGED <<args, config, grad_enabled, fs, root_handler, clock,
                   constructions, checkpoints, results, tl, rl, ret, err,
                   runs, finished>>

\* lines 199-207: the loss and, with classification_metrics, the labels and
\* the predictions of the batch are added to the epoch's lists
Accumulate ==
    /\ pc = "accumulate"
    /\ rl' = [rl EXCEPT
                !.running_loss = Append(@, rl.loss),
                !.y_true = IF config.classification_metrics THEN @ \o rl.y ELSE @,
                !.y_pred = IF config.classification_metrics
                           THEN Extend(@, rl.y_hat) ELSE @]
    /\ pc' = "loop"
    /\ UNCHANGED <<args, config, model, grad_enabled, fs, root_handler, clock,
                   constructions, calls, checkpoints, results, tl, ret, err,
                   runs, finished>>

\* the final-epoch test dropped
ValidationResult_EveryEpoch(epochs, epoch, prefix, y_true, y_pred) ==
    IF prefix = "validation"
    THEN [state |-> "pair", y_true |-> y_true, y_pred |-> y_pred]
    ELSE [state |-> "None", y_true |-> <<>>, y_pred |-> EmptyList]

\* lines 236-240
ValidationResult(epochs, epoch, prefix, y_true, y_pred) ==
    IF epochs - 1 = epoch /\ prefix = "validation"
    THEN [state |-> "pair", y_true |-> y_true, y_pred |-> y_pred]
    ELSE [state |-> "None", y_true |-> <<>>, y_pred |-> EmptyList]

\* the prefix ignored: every value goes to the training series
AppendMetrics_TrainingOnly(res, prefix, classification_metrics, report, mean_loss) ==
    LET withMetrics ==
            IF classification_metrics
            THEN [k \in DOMAIN res |->
                    IF k = "training_accuracy" THEN Append(res[k], report.accuracy)
                    ELSE IF k = "training_macro_recall" THEN Append(res[k], report.recall)
                    ELSE IF k = "training_macro_precision" THEN Append(res[k], report.precision)
                    ELSE IF k = "training_macro_f1score" THEN Append(res[k], report.f1score)
                    ELSE res[k]]
            ELSE res
    IN  [withMetrics EXCEPT !["training_loss"] = Append(@, mean_loss)]

\* lines 218-228: the series run_epoch appends to
AppendMetrics(res, prefix, classification_metrics, report, mean_loss) ==
    LET withMetrics ==
            IF classification_metrics
            THEN [k \in DOMAIN res |->
                    IF k = prefix \o "_accuracy" THEN Append(res[k], report.accuracy)
                    ELSE IF k = prefix \o "_macro_recall" THEN Append(res[k], report.recall)
                    ELSE IF k = prefix \o "_macro_precision" THEN Append(res[k], report.precision)
                    ELSE IF k = prefix \o "_macro_f1score" THEN Append(res[k], report.f1score)
                    ELSE res[k]]
            ELSE res
    IN  [withMetrics EXCEPT ![prefix \o "_loss"] = Append(@, mean_loss)]

\* the keys lines 223-228 index: a missing one raises KeyError
KeysUsed(prefix, classification_metrics) ==
    {prefix \o "_loss"} \cup
    (IF classification_metrics
     THEN {prefix \o "_" \o METRICS[k] : k \in DOMAIN METRICS} ELSE {})

\* time.time() differences: one tick per batch
Elapsed(batches) == batches

\* where a returning run_epoch call continues
ReturnTo(caller, prefix) ==
    IF caller = "train"
    THEN IF prefix = "training" THEN "after_training" ELSE "after_validation"
    ELSE "returned"

\* lines 209-242: after the loop
PostLoop ==
    /\ pc = "post_loop"
    /\ LET y_pred == HardLabels(rl.y_pred)
           cm == config.classification_metrics
           report == IF cm THEN ClassificationReport(rl.y_true, y_pred)
                     ELSE [accuracy |-> 0, recall |-> 0, precision |-> 0, f1score |-> 0]
       IN  IF ~(KeysUsed(rl.prefix, cm) \subseteq DOMAIN results)
           THEN /\ Unwind("KeyError")
                /\ UNCHANGED <<results, calls, ret>>
           ELSE /\ results' = AppendMetrics(results, rl.prefix, cm, report,
                                            Mean(rl.running_loss))
                /\ calls' = calls \o
                     (IF cm THEN <<"classification_report">> ELSE <<>>) \o
                     (IF ~config.progress_bar /\ rl.prefix = "training"
                      THEN <<"logging.info: finished epoch">> ELSE <<>>) \o
                     (IF config.epochs - 1 = rl.epoch /\ rl.prefix = "validation"
                      THEN <<"logging.info: last">> ELSE <<>>)
                /\ ret' = [returned |-> TRUE,
                           time_elapsed |-> Elapsed(rl.batch),
                           validation_result |->
                               ValidationResult(config.epochs, rl.epoch, rl.prefix,
                                                rl.y_true, y_pred),
                           x |-> rl.x]
                /\ pc' = ReturnTo(rl.caller, rl.prefix)
                /\ UNCHANGED <<err, grad_enabled>>
    /\ UNCHANGED <<args, config, model, fs, root_handler, clock, constructions,
                   checkpoints, tl, rl, runs, finished>>

\* the exception caught and the epoch loop left
Raise_Recovers ==
    /\ pc \in {"loop", "post_loop"}
    /\ rl.data_loader.present
    /\ pc' = IF rl.caller = "train" THEN "after_loop" ELSE "failed"
    /\ err' = "CollaboratorError"
    /\ grad_enabled' = TRUE
    /\ UNCHANGED <<args, config, model, fs, root_handler, clock, constructions,
                   calls, checkpoints, results, tl, rl, ret, runs, finished>>

\* an exception of a collaborator: the data source, the forward pass or the
\* loss (at the loop), the metric computation (after it)
Raise ==
    /\ pc \in {"loop", "post_loop"}
    /\ rl.data_loader.present
    /\ Unwind("CollaboratorError")
    /\ UNCHANGED <<args, config, model, fs, root_handler, clock, constructions,
                   calls, checkpoints, results, tl, rl, ret, runs, finished>>

(* -------------------------------- train ------------------------------- *)
\* line 98's test of the validation loader dropped
ToTrack_Unguarded(c) ==
    LET perMetric(name) == <<"training_" \o name, "validation_" \o name>>
    IN  <<"epoch", "epoch_time", "training_loss">> \o
        (IF c.validation_loader.present THEN <<"validation_loss">> ELSE <<>>) \o
        (IF c.classification_metrics
         THEN perMetric(METRICS[1]) \o perMetric(METRICS[2]) \o
              perMetric(METRICS[3]) \o perMetric(METRICS[4])
         ELSE <<>>)

\* lines 91-99
ToTrack(c) ==
    LET validation == c.validation_loader.present
        perMetric(name) ==
            <<"training_" \o name>> \o
            (IF validation THEN <<"validation_" \o name>> ELSE <<>>)
    IN  <<"epoch", "epoch_time", "training_loss">> \o
        (IF validation THEN <<"validation_loss">> ELSE <<>>) \o
        (IF c.classification_metrics
         THEN perMetric(METRICS[1]) \o perMetric(METRICS[2]) \o
              perMetric(METRICS[3]) \o perMetric(METRICS[4])
         ELSE <<>>)

\* a results mapping that outlives the call (a module-level dict)
EmptyResults_Kept(to_track) ==
    [k \in {to_track[i] : i \in DOMAIN to_track} |->
        IF k \in DOMAIN results THEN results[k] ELSE <<>>]

\* lines 101-103
EmptyResults(to_track) ==
    [k \in {to_track[i] : i \in DOMAIN to_track} |-> <<>>]

\* lines 89-106: train(config) up to the epoch loop
TrainStart ==
    /\ pc \in {"idle", "done"}
    /\ runs < 2
    /\ runs' = runs + 1
    /\ results' = EmptyResults(ToTrack(config))
    /\ tl' = NoTrainLocals
    /\ rl' = NoRunLocals
    /\ ret' = NoReturn
    /\ calls' = <<"logging.info: starting training", "model.to">>
    /\ checkpoints' = <<>>
    /\ pc' = "epoch_loop"
    /\ UNCHANGED <<args, config, model, grad_enabled, fs, root_handler, clock,
                   constructions, err, finished>>

\* one epoch too many
MoreEpochs_OffByOne(epoch, epochs) == epoch <= epochs

\* lines 107-109: range(config.epochs) has another epoch
MoreEpochs(epoch, epochs) == epoch < epochs

\* the switch back to training mode dropped
EpochLoop_NoTrainMode ==
    /\ pc = "epoch_loop"
    /\ IF MoreEpochs(tl.epoch, config.epochs)
       THEN /\ calls' = Append(calls, "model.train")
            /\ rl' = EnterRunEpoch("train", tl.epoch, "training")
            /\ pc' = "loop"
       ELSE /\ pc' = "after_loop"
            /\ UNCHANGED <<calls, rl>>
    /\ UNCHANGED <<args, config, model, grad_enabled, fs, root_handler, clock,
                   constructions, checkpoints, results, tl, ret, err, runs,
                   finished>>

\* lines 107-111: the loop head; an epoch starts with model.train() and the
\* training run_epoch
EpochLoop ==
    /\ pc = "epoch_loop"
    /\ IF MoreEpochs(tl.epoch, config.epochs)
       THEN /\ model' = [model EXCEPT !.training = TRUE]
            /\ calls' = Append(calls, "model.train")
            /\ rl' = EnterRunEpoch("train", tl.epoch, "training")
            /\ pc' = "loop"
       ELSE /\ pc' = "after_loop"
            /\ UNCHANGED <<model, calls, rl>>
    /\ UNCHANGED <<args, config, grad_enabled, fs, root_handler, clock,
                   constructions, checkpoints, results, tl, ret, err, runs,
                   finished>>

\* lines 111-119: the training pass has returned; with a validation loader,
\* model.eval() and the validation run_epoch inside torch.no_grad()
AfterTraining ==
    /\ pc = "after_training"
    /\ tl' = [tl EXCEPT !.epoch_time = ret.time_elapsed,
                        !.x_sample = <<ret.x[1]>>,
                        !.time_training = @ + ret.time_elapsed]
    /\ IF config.validation_loader.present
       THEN /\ model' = [model EXCEPT !.training = FALSE]
            /\ grad_enabled' = FALSE
            /\ calls' = calls \o <<"model.eval", "torch.no_grad: enter">>
            /\ rl' = EnterRunEpoch("train", tl.epoch, "validation")
            /\ pc' = "loop"
       ELSE /\ pc' = "record"
            /\ UNCHANGED <<model, grad_enabled, calls, rl>>
    /\ UNCHANGED <<args, config, fs, root_handler, clock, constructions,
                   checkpoints, results, ret, err, runs, finished>>

\* the model put back in training mode after the validation pass
AfterValidation_BackToTrain ==
    /\ pc = "after_validation"
    /\ tl' = [tl EXCEPT !.validation_result = ret.validation_result]
    /\ grad_enabled' = TRUE
    /\ model' = [model EXCEPT !.training = TRUE]
    /\ calls' = calls \o <<"torch.no_grad: exit", "model.train">>
    /\ pc' = "record"
    /\ UNCHANGED <<args, config, fs, root_handler, clock, constructions,
                   checkpoints, results, rl, ret, err, runs, finished>>

\* lines 117-120: the validation pass has returned
AfterValidation ==
    /\ pc = "after_validation"
    /\ tl' = [tl EXCEPT !.validation_result = ret.validation_result]
    /\ grad_enabled' = TRUE
    /\ calls' = Append(calls, "torch.no_grad: exit")
    /\ pc' = "record"
    /\ UNCHANGED <<args, config, model, fs, root_handler, clock, constructions,
                   checkpoints, results, rl, ret, err, runs, finished>>

\* the epoch recorded by its 0-based index
Record_ZeroBased ==
    /\ pc = "record"
    /\ results' = [results EXCEPT !["epoch"] = Append(@, tl.epoch),
                                  !["epoch_time"] = Append(@, tl.epoch_time)]
    /\ pc' = "checkpoint"
    /\ UNCHANGED <<args, config, model, grad_enabled, fs, root_handler, clock,
                   constructions, calls, checkpoints, tl, rl, ret, err, runs,
                   finished>>

\* lines 122-123
Record ==
    /\ pc = "record"
    /\ results' = [results EXCEPT !["epoch"] = Append(@, tl.epoch + 1),
                                  !["epoch_time"] = Append(@, tl.epoch_time)]
    /\ pc' = "checkpoint"
    /\ UNCHANGED <<args, config, model, grad_enabled, fs, root_handler, clock,
                   constructions, calls, checkpoints, tl, rl, ret, err, runs,
                   finished>>

EpochTag(e) == <<"epoch", e>>
LastTag == <<"last">>

\* save_checkpoint(tag, config, results, validation_result, x_sample): reading
\* a local that was never assigned raises UnboundLocalError
SaveCheckpoint(tag, next) ==
    IF tl.validation_result.state = "unbound"
    THEN /\ Unwind("UnboundLocalError")
         /\ UNCHANGED <<checkpoints, calls>>
    ELSE /\ checkpoints' = Append(checkpoints,
                                  [tag |-> tag, results |-> results,
                                   validation_result |-> tl.validation_result,
                                   x_sample |-> tl.x_sample])
         /\ calls' = Append(calls, "save_checkpoint")
         /\ pc' = next
         /\ UNCHANGED <<err, grad_enabled>>

\* the list read as 1-based epoch numbers
CheckpointDue_OneBased(checkpoint_epochs, epoch) ==
    checkpoint_epochs.present /\ (epoch + 1) \in checkpoint_epochs.epochs

\* line 125
CheckpointDue(checkpoint_epochs, epoch) ==
    checkpoint_epochs.present /\ epoch \in checkpoint_epochs.epochs

\* lines 125-126, and the step to the next epoch
Checkpoint ==
    /\ pc = "checkpoint"
    /\ IF CheckpointDue(config.checkpoint_epochs, tl.epoch)
       THEN SaveCheckpoint(EpochTag(tl.epoch), "epoch_loop")
       ELSE /\ pc' = "epoch_loop"
            /\ UNCHANGED <<checkpoints, calls, err, grad_enabled>>
    \* the loop variable advances unless save_checkpoint's call raised
    /\ tl' = IF pc' = "epoch_loop" THEN [tl EXCEPT !.epoch = @ + 1] ELSE tl
    /\ UNCHANGED <<args, config, model, fs, root_handler, clock, constructions,
                   results, rl, ret, runs, finished>>

\* line 128
FinalCheckpointDue(save_model) == save_model

\* lines 128-129
AfterLoop ==
    /\ pc = "after_loop"
    /\ IF FinalCheckpointDue(config.save_model)
       THEN SaveCheckpoint(LastTag, "report")
       ELSE /\ pc' = "report"
            /\ UNCHANGED <<checkpoints, calls, err, grad_enabled>>
    /\ UNCHANGED <<args, config, model, fs, root_handler, clock, constructions,
                   results, tl, rl, ret, runs, finished>>

\* lines 134-161: the calls of the classification reporting
ReportCalls(save_model) ==
    <<"confusion_matrix", "logging.info: confusion matrix",
      "DummyClassifier.fit", "DummyClassifier.predict",
      "classification_report", "logging.info: classification report baseline",
      "classification_report", "logging.info: classification report">> \o
    (IF save_model
     THEN <<"save_loss", "save_metrics: training", "save_metrics: validation",
            "save_confusion_matrix">>
     ELSE <<>>)

\* lines 131-161: unpacking a local never assigned raises UnboundLocalError,
\* unpacking None raises TypeError
Report ==
    /\ pc = "report"
    /\ IF ~config.classification_metrics
       THEN /\ pc' = "finish"
            /\ UNCHANGED <<calls, err, grad_enabled>>
       ELSE IF tl.validation_result.state = "unbound"
       THEN /\ Unwind("UnboundLocalError")
            /\ UNCHANGED calls
       ELSE IF tl.validation_result.state = "None"
       THEN /\ Unwind("TypeError")
            /\ UNCHANGED calls
       ELSE /\ calls' = calls \o ReportCalls(config.save_model)
            /\ pc' = "finish"
            /\ UNCHANGED <<err, grad_enabled>>
    /\ UNCHANGED <<args, config, model, fs, root_handler, clock, constructions,
                   checkpoints, results, tl, rl, ret, runs, finished>>

\* the packaging moved ahead of the final measurements
FinishCalls_ZipFirst(zip_result) ==
    (IF zip_result THEN <<"zip_results">> ELSE <<>>) \o
    <<"logging.info: finished training", "compute_size",
      "logging.info: Model size", "time_pipeline",
      "logging.info: Average latency">>

\* lines 163-172
FinishCalls(zip_result) ==
    <<"logging.info: finished training", "compute_size",
      "logging.info: Model size", "time_pipeline",
      "logging.info: Average latency">> \o
    (IF zip_result THEN <<"zip_results">> ELSE <<>>)

\* lines 163-172: train returns
Finish ==
    /\ pc = "finish"
    /\ calls' = calls \o FinishCalls(config.zip_result)
    /\ finished' = Append(finished, results)
    /\ pc' = "done"
    /\ UNCHANGED <<args, config, model, grad_enabled, fs, root_handler, clock,
                   constructions, checkpoints, results, tl, rl, ret, err,
                   runs>>

(* ---------------------- a direct call of run_epoch --------------------- *)
\* the options only train reads are at their defaults (lines 44, 46, 52)
TrainOptionsDefault(c) ==
    ~c.save_model /\ ~c.zip_result /\ ~c.checkpoint_epochs.present

\* run_epoch(config, results, epoch, prefix) called on a constructed config
\* with the results mapping train would build, the model in either mode
CallRunEpoch(epoch, prefix, training) ==
    /\ pc = "idle"
    /\ runs = 0
    /\ TrainOptionsDefault(config)
    /\ model' = [model EXCEPT !.training = training]
    /\ results' = EmptyResults(ToTrack(config))
    /\ rl' = EnterRunEpoch("direct", epoch, prefix)
    /\ calls' = <<>>
    /\ pc' = "loop"
    /\ UNCHANGED <<args, config, grad_enabled, fs, root_handler, clock,
                   constructions, checkpoints, tl, ret, err, runs, finished>>

(* --------------------------- specifications --------------------------- *)
Init ==
    /\ pc = "new"
    /\ args = NoArgs
    /\ config = NoConfig
    /\ model = NewModel
    /\ grad_enabled = TRUE
    /\ fs = {}
    /\ root_handler = ""
    /\ clock = 0
    /\ constructions = 0
    /\ calls = <<>>
    /\ checkpoints = <<>>
    /\ results = EmptyResults(<<>>)
    /\ tl = NoTrainLocals
    /\ rl = NoRunLocals
    /\ ret = NoReturn
    /\ err = ""
    /\ runs = 0
    /\ finished = <<>>

\* the checkpoint lists a configuration is built with: None, the empty list,
\* one epoch, and the first and last epochs of the longest run (for shorter
\* runs the lists name epochs the run never reaches)
CheckpointChoices ==
    {NoEpochs} \cup {Epochs(S) : S \in {{}, {0}, {1}, {0, MaxEpochs - 1}}}

\* the constructor arguments of the training runs
TrainArgs ==
    [optimizer : {"SGD", "AdamW", "Adam"},
     training_loader : {Loader(n) : n \in 1..MaxBatches},
     validation_loader : {NoLoader} \cup {Loader(n) : n \in 1..MaxBatches},
     epochs : 1..MaxEpochs,
     device : {Str("cpu")},
     save_model : BOOLEAN,
     colab : {FALSE},
     zip_result : BOOLEAN,
     save_path : {"runs"},
     model_name : {"model"},
     classification_metrics : BOOLEAN,
     progress_bar : BOOLEAN,
     checkpoint_epochs : CheckpointChoices]

\* the one construction a training run starts from
ConstructForTraining ==
    /\ pc = "new"
    /\ \E a \in TrainArgs : Construct(a, FALSE)

DirectCall ==
    \E epoch \in 0..MaxEpochs, prefix \in {"training", "validation"},
       training \in BOOLEAN :
        CallRunEpoch(epoch, prefix, training)

Next ==
    \/ ConstructForTraining
    \/ TrainStart
    \/ EpochLoop
    \/ Forward
    \/ Backward
    \/ Step
    \/ ZeroGrad
    \/ Accumulate
    \/ PostLoop
    \/ Raise
    \/ AfterTraining
    \/ AfterValidation
    \/ Record
    \/ Checkpoint
    \/ AfterLoop
    \/ Report
    \/ Finish
    \/ DirectCall

Spec == Init /\ [][Next]_vars

\* the constructor arguments of the configuration lifecycle: every kind of
\* device selector, with and without save_model and colab
ConfigArgs ==
    [optimizer : {"SGD"},
     training_loader : {Loader(1)},
     validation_loader : {NoLoader},
     epochs : {1},
     device : {Str("cpu"), Str("gpu"), Str("tpu"), Device("cpu"),
               Device("cuda:0"), Device("cuda:1")},
     save_model : BOOLEAN,
     colab : BOOLEAN,
     zip_result : {FALSE},
     save_path : {"runs"},
     model_name : {"model"},
     classification_metrics : {FALSE},
     progress_bar : {TRUE},
     checkpoint_epochs : {NoEpochs}]

\* one more TrainingConfig(...) in the same process
ConstructAgain ==
    /\ constructions < MaxConstructions
    /\ \E a \in ConfigArgs, cuda_available \in BOOLEAN :
           Construct(a, cuda_available)

NextConfig ==
    \/ ConstructAgain
    \/ Tick

SpecConfig == Init /\ [][NextConfig]_vars

\* what a model can return for a batch of n samples: one number per sample,
\* or one row of 1..MaxCols scores per sample
Scores == 0..MaxScore
Outputs(n) ==
    {Array(1, s) : s \in [1..n -> Scores]} \cup
    {Array(2, r) : r \in UNION {[1..n -> [1..c -> Scores]] : c \in 1..MaxCols}}

\* the constructor arguments of a one-epoch configuration with a validation
\* loader of one batch
LabelArgs(classification_metrics) ==
    [optimizer |-> "SGD",
     training_loader |-> Loader(1),
     validation_loader |-> Loader(1),
     epochs |-> 1,
     device |-> Str("cpu"),
     save_model |-> FALSE,
     colab |-> FALSE,
     zip_result |-> FALSE,
     save_path |-> "runs",
     model_name |-> "model",
     classification_metrics |-> classification_metrics,
     progress_bar |-> TRUE,
     checkpoint_epochs |-> NoEpochs]

\* run_epoch(config, results, 0, "validation") called directly in evaluation
\* mode, at line 199 of its only batch: the model has returned y_hat for the
\* n samples of the batch
InitLabels ==
    \E n \in 1..MaxRows, classification_metrics \in BOOLEAN :
        \E y_hat \in Outputs(n) :
            /\ pc = "accumulate"
            /\ args = LabelArgs(classification_metrics)
            /\ config = PostInit(LabelArgs(classification_metrics), 0, FALSE)
            /\ model = [NewModel EXCEPT !.training = FALSE]
            /\ grad_enabled = TRUE
            /\ fs = {LOG_FILE}
            /\ root_handler = LOG_FILE
            /\ clock = 0
            /\ constructions = 1
            /\ calls = <<"model.forward">>
            /\ checkpoints = <<>>
            /\ results = EmptyResults(ToTrack(
                             PostInit(LabelArgs(classification_metrics), 0, FALSE)))
            /\ tl = NoTrainLocals
            /\ rl = [caller |-> "direct", prefix |-> "validation", epoch |-> 0,
                     data_loader |-> Loader(1), batch |-> 1,
                     running_loss |-> <<>>, y_true |-> <<>>,
                     y_pred |-> EmptyList,
                     x |-> [k \in 1..n |-> Offset("validation") + 10 + k],
                     y |-> [k \in 1..n |-> k % 2],
                     y_hat |-> y_hat, loss |-> 0]
            /\ ret = NoReturn
            /\ err = ""
            /\ runs = 0
            /\ finished = <<>>

\* the rest of the call: the lists are extended, the loop ends, lines 209-242
NextLabels ==
    \/ Accumulate
    \/ Forward
    \/ PostLoop

SpecLabels == InitLabels /\ [][NextLabels]_vars

(* ------------------------------- claims ------------------------------- *)
RunEpochPcs == {"loop", "backward", "step", "zero_grad", "accumulate", "post_loop"}
ReturnPcs == {"after_training", "after_validation", "returned"}
TrainPcs == {"epoch_loop", "after_training", "after_validation", "record",
             "checkpoint", "after_loop", "report", "finish", "done"}
InTrain == runs >= 1 /\ (pc \in TrainPcs \/ (pc \in RunEpochPcs /\ rl.caller = "train"))

\* C1: when train completes successfully, results["epoch"] and
\* results["epoch_time"] each hold exactly config.epochs entries, whatever the
\* flags of the configuration
C1_EpochSeriesLength ==
    pc = "done" =>
        /\ Len(results["epoch"]) = config.epochs
        /\ Len(results["epoch_time"]) = config.epochs

C1_Witness ==
    /\ pc = "done"
    /\ config.epochs >= 3
    /\ config.validation_loader.present
    /\ config.classification_metrics
    /\ config.save_model
    /\ Len(results["epoch_time"]) = config.epochs

\* the keys a "validation" prefix makes, and the others
SeriesNames == {"loss"} \cup {METRICS[k] : k \in DOMAIN METRICS}
ValidationKeys == {"validation_" \o n : n \in SeriesNames}
OtherKeys == {"epoch", "epoch_time"} \cup {"training_" \o n : n \in SeriesNames}

\* C2: with a validation loader, results["validation_loss"] holds exactly
\* config.epochs entries once train has completed; without one, the results
\* mapping never has a key that starts with "validation_" (every key is
\* "epoch", "epoch_time" or a "training_" key), classification_metrics or not
C2_ValidationSeries ==
    /\ (pc = "done" /\ config.validation_loader.present) =>
           Len(results["validation_loss"]) = config.epochs
    /\ (config.constructed /\ ~config.validation_loader.present) =>
           /\ DOMAIN results \cap ValidationKeys = {}
           /\ DOMAIN results \subseteq OtherKeys

C2_Witness ==
    /\ InTrain
    /\ pc = "report"
    /\ ~config.validation_loader.present
    /\ config.classification_metrics
    /\ Len(results["training_accuracy"]) = config.epochs
    /\ config.epochs >= 2

\* the checkpoint events a configuration asks for, in order
RECURSIVE ExpectedEpochTags(_, _, _)
ExpectedEpochTags(checkpoint_epochs, e, epochs) ==
    IF e >= epochs THEN <<>>
    ELSE (IF checkpoint_epochs.present /\ e \in checkpoint_epochs.epochs
          THEN <<EpochTag(e)>> ELSE <<>>) \o
         ExpectedEpochTags(checkpoint_epochs, e + 1, epochs)
ExpectedTags(c) ==
    ExpectedEpochTags(c.checkpoint_epochs, 0, c.epochs) \o
    (IF c.save_model THEN <<LastTag>> ELSE <<>>)
Tags(events) == [i \in DOMAIN events |-> events[i].tag]

\* C3: a train call that completes has made exactly one save_checkpoint call
\* for each epoch index e in [0, epochs) that is in checkpoint_epochs, tagged
\* e, in increasing order of e, followed by exactly one call tagged "last"
\* if and only if save_model is set; no call at all when neither is asked for
C3_CheckpointEvents ==
    pc = "done" => Tags(checkpoints) = ExpectedTags(config)

C3_Witness ==
    /\ pc = "done"
    /\ config.epochs = 3
    /\ config.checkpoint_epochs = Epochs({0, 2})
    /\ config.save_model
    /\ Tags(checkpoints) = <<EpochTag(0), EpochTag(2), LastTag>>

GradientCalls == {"loss.backward", "optimizer.step", "optimizer.zero_grad"}
NewCalls == {calls'[i] : i \in (Len(calls) + 1)..Len(calls')}

\* C4: no step of a run_epoch call made with the model in evaluation mode
\* calls backward, optimizer.step or optimizer.zero_grad, and none changes
\* the model (its parameters, its gradient buffer, its mode)
C4_EvalModeFrame ==
    [][(pc \in RunEpochPcs /\ ~model.training) =>
           /\ model' = model
           /\ NewCalls \cap GradientCalls = {}]_vars

C4_Witness ==
    /\ pc = "returned"
    /\ rl.caller = "direct"
    /\ ~model.training
    /\ grad_enabled
    /\ rl.batch >= 2
    /\ Sum(rl.running_loss) > 0
    /\ model.params = NewModel.params

\* the last n calls
LastCalls(n) ==
    IF Len(calls) < n THEN <<>> ELSE SubSeq(calls, Len(calls) - n + 1, Len(calls))

\* C5: in training mode a batch calls backward, then optimizer.step, then
\* optimizer.zero_grad, once each and in that order: the gradient buffer is
\* empty when backward runs, holds this batch's gradient alone when the
\* optimizer steps, and is empty again when the batch ends
C5_TrainingBatchOrder ==
    /\ pc \in {"backward", "step", "zero_grad"} => model.training
    /\ pc = "backward" =>
           /\ model.grad = 0
           /\ LastCalls(1) = <<"model.forward">>
    /\ pc = "step" =>
           /\ model.grad = rl.loss
           /\ LastCalls(2) = <<"model.forward", "loss.backward">>
    /\ pc = "zero_grad" =>
           LastCalls(3) = <<"model.forward", "loss.backward", "optimizer.step">>
    /\ (pc = "accumulate" /\ model.training) =>
           /\ model.grad = 0
           /\ LastCalls(4) = <<"model.forward", "loss.backward",
                               "optimizer.step", "optimizer.zero_grad">>

C5_Witness ==
    /\ pc = "step"
    /\ rl.batch = 2
    /\ rl.loss > 0
    /\ model.params > 0
    /\ model.grad = rl.loss

\* C6: after construction config.optimizer is an optimizer object bound to
\* the model's parameters, whatever the selector, and no optimizer step of a
\* later train call fails for want of one
C6_OptimizerBound ==
    /\ config.constructed =>
           /\ config.optimizer.type = "optimizer"
           /\ config.optimizer.bound = "model.parameters()"
    /\ err # "AttributeError"

\* C7: with classification_metrics and no validation loader, train fails
\* before any epoch is run: it never enters run_epoch
C7_FailsFast ==
    (config.constructed /\ config.classification_metrics
        /\ ~config.validation_loader.present) =>
        ~(rl.caller = "train" /\ pc \in RunEpochPcs)

\* C8: a run_epoch call returns the pair of the accumulated true labels and
\* predicted labels if and only if epoch = config.epochs - 1 and prefix =
\* "validation", and None otherwise; within train the snapshot is absent (not
\* yet assigned, or None) in every epoch before the final one
C8_SnapshotAtFinalValidation ==
    /\ pc \in ReturnPcs =>
           /\ ret.validation_result.state = "pair" <=>
                  (rl.epoch = config.epochs - 1 /\ rl.prefix = "validation")
           /\ ret.validation_result.state = "pair" =>
                  /\ ret.validation_result.y_true = rl.y_true
                  /\ ret.validation_result.y_pred = HardLabels(rl.y_pred)
           /\ ret.validation_result.state # "pair" =>
                  ret.validation_result.state = "None"
    /\ (InTrain /\ tl.epoch < config.epochs - 1) =>
           tl.validation_result.state # "pair"

C8_Witness ==
    /\ pc = "after_validation"
    /\ config.epochs >= 2
    /\ config.classification_metrics
    /\ ret.validation_result.state = "pair"
    /\ Len(ret.validation_result.y_true) >= 2
    /\ Shape(rl.y_pred)[2] = 2
    /\ Shape(ret.validation_result.y_pred) = <<Len(rl.y_true)>>
    /\ ret.validation_result.y_pred.items[1] \in {0, 1}

\* C9: a construction with save_model set whose output directory
\* save_path/<timestamp>_<model_name> exists raises FileExistsError; it
\* leaves the file system and the root logger's handler as they were
C9_DirectoryCollision ==
    [][(constructions' = constructions + 1 /\ args'.save_model
          /\ Join(args'.save_path, Strftime(clock) \o "_" \o args'.model_name)
                 \in fs) =>
           /\ pc' = "construct_failed"
           /\ err' = "FileExistsError"
           /\ fs' = fs
           /\ root_handler' = root_handler
           /\ config' = config]_vars

C9_Witness ==
    /\ pc = "construct_failed"
    /\ err = "FileExistsError"
    /\ constructions = 2
    /\ args.save_model
    /\ config.save_model
    /\ args.save_path = config.save_path
    /\ args.model_name = config.model_name
    /\ config.save_path_final \in fs

\* C10: two train calls in sequence on one configuration object end with the
\* same result keys and the same length (config.epochs) for every series; the
\* second call starts from a mapping whose series are all empty
C10_SecondRunSameShape ==
    /\ Len(finished) = 2 =>
           /\ DOMAIN finished[1] = DOMAIN finished[2]
           /\ \A k \in DOMAIN finished[2] :
                  /\ Len(finished[1][k]) = config.epochs
                  /\ Len(finished[2][k]) = config.epochs
    /\ (runs = 2 /\ pc = "epoch_loop" /\ tl.epoch = 0) =>
           \A k \in DOMAIN results : results[k] = <<>>

C10_Witness ==
    /\ Len(finished) = 2
    /\ pc = "done"
    /\ config.epochs >= 2
    /\ config.validation_loader.present
    /\ config.classification_metrics
    /\ finished[1] # finished[2]

\* the validation run_epoch of train: from the entry of the no-gradient scope
\* to its exit
InValidationPass ==
    \/ pc \in RunEpochPcs /\ rl.caller = "train" /\ rl.prefix = "validation"
    \/ pc = "after_validation"
InTrainingPass ==
    \/ pc \in RunEpochPcs /\ rl.caller = "train" /\ rl.prefix = "training"
    \/ pc = "after_training"

\* C11: within train every step of a training run_epoch has the model in
\* training mode and gradients enabled; every step of a validation run_epoch,
\* from before its first batch, has the model in evaluation mode and
\* gradients disabled, and only happens with a validation loader; outside the
\* validation pass (at the next epoch's loop head in particular) gradients
\* are enabled again
C11_PassModes ==
    /\ InTrainingPass => (model.training /\ grad_enabled)
    /\ InValidationPass =>
           /\ ~model.training
           /\ ~grad_enabled
           /\ config.validation_loader.present
    /\ (InTrain /\ ~InValidationPass) => grad_enabled

C11_Witness ==
    /\ pc = "backward"
    /\ rl.caller = "train"
    /\ rl.prefix = "training"
    /\ rl.epoch >= 1
    /\ config.validation_loader.present
    /\ Len(results["validation_loss"]) = rl.epoch
    /\ model.training
    /\ grad_enabled

\* what train calls after the epoch loop, apart from the checkpoint
EndOfRunCalls ==
    ({ReportCalls(TRUE)[i] : i \in DOMAIN ReportCalls(TRUE)} \cup
     {FinishCalls(TRUE)[i] : i \in DOMAIN FinishCalls(TRUE)})
        \ {"classification_report"}

\* C12: once a collaborator (data source, forward pass, loss, metric
\* computation) has raised in epoch k of train, the call has failed for good:
\* the checkpoint events are exactly those of the configured epochs e < k,
\* none is tagged "last", and no call of the reporting, of the final
\* measurements or of the packaging has been made
C12_NoRecovery ==
    (err = "CollaboratorError" /\ rl.caller = "train") =>
        /\ pc = "failed"
        /\ Tags(checkpoints) =
               ExpectedEpochTags(config.checkpoint_epochs, 0, tl.epoch)
        /\ \A i \in DOMAIN checkpoints : checkpoints[i].tag # LastTag
        /\ \A i \in DOMAIN calls : calls[i] \notin EndOfRunCalls
        /\ Len(finished) < runs

C12_Witness ==
    /\ pc = "failed"
    /\ err = "CollaboratorError"
    /\ rl.caller = "train"
    /\ rl.prefix = "validation"
    /\ tl.epoch = 2
    /\ config.save_model
    /\ config.zip_result
    /\ config.classification_metrics
    /\ Tags(checkpoints) = <<EpochTag(0)>>

\* the series a returning run_epoch call is to extend
SeriesOf(prefix, classification_metrics) ==
    IF classification_metrics
    THEN {prefix \o "_loss", prefix \o "_accuracy", prefix \o "_macro_recall",
          prefix \o "_macro_precision", prefix \o "_macro_f1score"}
    ELSE {prefix \o "_loss"}
\* series `new` is series `old` with n values added at its end
Extends(new, old, n) ==
    Len(new) = Len(old) + n /\ SubSeq(new, 1, Len(old)) = old

\* C13: the step on which a run_epoch call returns adds exactly one value to
\* results[prefix + "_loss"], exactly one to each of the four metric series of
\* the prefix if and only if classification_metrics is set, and leaves every
\* other series and the key set as they were; no other step of the call
\* touches results; and within a call of train or run_epoch no series loses a
\* value
C13_AppendsPerCall ==
    [][/\ (pc = "post_loop" /\ pc' \in ReturnPcs) =>
              /\ DOMAIN results' = DOMAIN results
              /\ SeriesOf(rl.prefix, config.classification_metrics)
                     \subseteq DOMAIN results
              /\ \A k \in DOMAIN results :
                     IF k \in SeriesOf(rl.prefix, config.classification_metrics)
                     THEN Extends(results'[k], results[k], 1)
                     ELSE results'[k] = results[k]
       /\ (pc \in RunEpochPcs /\ pc' \notin ReturnPcs) => results' = results
       /\ (pc \in RunEpochPcs \cup TrainPcs /\ pc # "done") =>
              /\ DOMAIN results' = DOMAIN results
              /\ \A k \in DOMAIN results :
                     \E n \in 0..1 : Extends(results'[k], results[k], n)]_vars

C13_Witness ==
    /\ pc = "after_validation"
    /\ config.classification_metrics
    /\ Len(results["validation_macro_f1score"]) = 2
    /\ Len(results["validation_loss"]) = 2
    /\ Len(results["training_accuracy"]) = 2
    /\ Len(results["epoch"]) = 1

\* where a call occurs in the trace of the current train call
Positions(c) == {i \in DOMAIN calls : calls[i] = c}
FinalLogs == {"logging.info: finished training", "logging.info: Model size",
              "logging.info: Average latency"}
\* the calls of the epochs, of the checkpoints and of the reporting
EarlierCalls ==
    {"model.forward", "save_checkpoint", "confusion_matrix",
     "classification_report", "logging.info: classification report",
     "save_loss", "save_metrics: training", "save_metrics: validation",
     "save_confusion_matrix"}

\* C14: a train call that has completed has logged the training time, the
\* model size and the latency exactly once each, whatever the flags, all of
\* them after every call of the epochs, every save_checkpoint and every call
\* of the classification reporting; zip_results has been called once if
\* zip_result is set and never otherwise, and is then the last call of train;
\* a call still running has not packaged anything
C14_FinalReport ==
    /\ pc = "done" =>
           /\ \A c \in FinalLogs : Cardinality(Positions(c)) = 1
           /\ \A c \in FinalLogs, e \in EarlierCalls :
                  \A i \in Positions(c), j \in Positions(e) : j < i
           /\ Cardinality(Positions("zip_results")) =
                  (IF config.zip_result THEN 1 ELSE 0)
           /\ config.zip_result => calls[Len(calls)] = "zip_results"
           /\ Positions("save_checkpoint") # {} <=> checkpoints # <<>>
    /\ pc # "done" => Positions("zip_results") = {}

C14_Witness ==
    /\ pc = "done"
    /\ config.zip_result
    /\ config.save_model
    /\ config.classification_metrics
    /\ config.epochs >= 2
    /\ Cardinality(Positions("save_checkpoint")) >= 2
    /\ Positions("save_confusion_matrix") # {}
    /\ calls[Len(calls)] = "zip_results"

\* the selectors lines 79 and 82 name
RecognizedDevices == {Str("cpu"), Str("gpu"), Device("cpu"), Device("cuda:0")}
NotAvailableNotice(requested) ==
    "logging.info: device " \o requested.name \o " is not available, using cpu instead"

\* C15: after a construction config.device is a concrete device, cuda:0 only
\* when "gpu" or cuda:0 was requested; a selector that is none of "cpu",
\* "gpu", cpu, cuda:0 is resolved to the cpu device and the construction logs
\* that the requested device is not available and cpu is used instead
C15_DeviceFallback ==
    (pc = "idle" /\ config.constructed) =>
        /\ config.device \in {Device("cpu"), Device("cuda:0")}
        /\ config.device = Device("cuda:0") =>
               args.device \in {Str("gpu"), Device("cuda:0")}
        /\ args.device \notin RecognizedDevices =>
               /\ config.device = Device("cpu")
               /\ \E i \in DOMAIN calls : calls[i] = NotAvailableNotice(args.device)

\* the log file of the construction a step makes
LogFileOfStep ==
    IF args'.save_model
    THEN args'.save_path \o "/" \o ToString(clock) \o "_" \o args'.model_name
             \o "/" \o LOG_FILE
    ELSE LOG_FILE

\* C16: a construction that completes makes its own log file the destination
\* of the root logger when colab is set or no destination is configured yet,
\* and leaves the destination as it was otherwise; so after a construction
\* with colab the destination is that construction's log file, whatever came
\* before
C16_LoggingDestination ==
    [][(constructions' = constructions + 1 /\ pc' = "idle") =>
           /\ root_handler' = IF args'.colab \/ root_handler = ""
                               THEN LogFileOfStep ELSE root_handler
           /\ config'.colab => root_handler' = LogFileOfStep
           /\ (~config'.colab /\ root_handler # "") => root_handler' = root_handler
           /\ LogFileOfStep \in fs']_vars

C16_Witness ==
    /\ pc = "idle"
    /\ constructions = 3
    /\ ~args.colab
    /\ args.save_model
    /\ root_handler = LOG_FILE
    /\ Join(config.save_path_final, LOG_FILE) \in fs
    /\ Join(Join("runs", "0_model"), LOG_FILE) \in fs
    /\ config.save_path_final # Join("runs", "0_model")

\* label i (0-based) is the first index of a largest entry of the row
FirstLargest(row, i) ==
    /\ i + 1 \in 1..Len(row)
    /\ \A j \in 1..Len(row) : row[j] <= row[i + 1]
    /\ \A j \in 1..i : row[j] < row[i + 1]

\* C17: the predictions a run_epoch pass hands on (to the classification
\* report and in its result) are, when the accumulated predictions have two
\* dimensions and more than one column, the one-dimensional array holding for
\* each row the first index of a largest entry; in every other case (a single
\* column, one dimension, nothing accumulated) they are the accumulated
\* predictions themselves
C17_HardLabelsIff ==
    (pc = "returned" /\ ret.validation_result.state = "pair") =>
        LET acc == rl.y_pred
            out == ret.validation_result.y_pred
        IN  IF acc.ndim = 2 /\ Len(acc.items[1]) > 1
            THEN /\ out.ndim = 1
                 /\ Len(out.items) = Len(acc.items)
                 /\ \A k \in 1..Len(acc.items) :
                        FirstLargest(acc.items[k], out.items[k])
                 /\ config.classification_metrics =>
                        results["validation_accuracy"] =
                            <<Ratio(Cardinality({k \in 1..Len(rl.y_true) :
                                                   out.items[k] = rl.y_true[k]}),
                                    Len(rl.y_true))>>
            ELSE out = acc

C17_Witness ==
    /\ pc = "returned"
    /\ config.classification_metrics
    /\ rl.y_pred = Array(2, <<<<1, 1>>, <<0, 1>>>>)
    /\ ret.validation_result.y_pred = Array(1, <<0, 1>>)
    /\ results["validation_accuracy"] = <<0>>

\* C18: the results a checkpoint event tagged with the epoch index e carries
\* have exactly e + 1 entries in every series (the training pass, the
\* validation pass if any and the record of "epoch" and "epoch_time" of epoch
\* e are all in), and the last entry of their "epoch" series is e + 1
C18_CheckpointAfterRecord ==
    \A i \in DOMAIN checkpoints :
        Len(checkpoints[i].tag) = 2 =>
            LET e == checkpoints[i].tag[2]
                carried == checkpoints[i].results
            IN  /\ DOMAIN carried = DOMAIN results
                /\ \A k \in DOMAIN carried : Len(carried[k]) = e + 1
                /\ carried["epoch"][e + 1] = e + 1
                /\ carried["epoch"] = [n \in 1..(e + 1) |-> n]

C18_Witness ==
    /\ Len(checkpoints) = 2
    /\ checkpoints[1].tag = EpochTag(0)
    /\ checkpoints[2].tag = EpochTag(2)
    /\ config.classification_metrics
    /\ Len(checkpoints[2].results["validation_macro_recall"]) = 3
    /\ Len(checkpoints[1].results["training_loss"]) = 1
    /\ checkpoints[2].results["epoch"] = <<1, 2, 3>>

\* C19: from the end of the epoch loop on (the "last" checkpoint, the
\* reporting, the size and latency measurements) and when train has
\* returned, the model is in evaluation mode if the configuration has a
\* validation loader and in training mode if it has none: the last mode
\* switch of train is the one of its last epoch
C19_ModeAtEnd ==
    (pc \in {"after_loop", "report", "finish", "done"}) =>
        /\ config.validation_loader.present => ~model.training
        /\ ~config.validation_loader.present => model.training
        /\ config.validation_loader.present =>
               \A i \in Positions("model.train") :
                   \E j \in Positions("model.eval") : i < j
        /\ ~config.validation_loader.present => Positions("model.eval") = {}
        /\ pc = "done" =>
               \A i \in Positions("time_pipeline") :
                   \A j \in Positions("model.train") \cup Positions("model.eval") :
                       j < i

C19_Witness ==
    /\ pc = "done"
    /\ runs = 2
    /\ config.validation_loader.present
    /\ config.epochs >= 2
    /\ ~model.training
    /\ Positions("time_pipeline") # {}

====
